---- MODULE Spec2Model ----
(***************************************************************************)
(* Payment-coverage and debt-accounting engine of motocar.api              *)
(* (InstallmentService), modelled from                                     *)
(*   src/src/installment/installment.service.ts   (version "svc")          *)
(*   src/unnamed/part_003                          (version "p3", the      *)
(*       variant of the same service that stores debt snapshots).          *)
(*                                                                         *)
(* Representation.                                                         *)
(*  - A Date is the serial number of a calendar day; day 0 is 2024-01-01.  *)
(*    Every Date the service computes with has been passed through         *)
(*    startOfDay, so the time of day is not part of the model.             *)
(*    toColombiaUtc (src/unnamed/part_004:40-44) converts an instant to    *)
(*    the Bogota zone and back, which returns the same instant.            *)
(*  - Money is an integer.  Installment counts and day counts are          *)
(*    fractions; they are kept exactly as integers in units of 1/SCALE,    *)
(*    where every daily rate of the model divides SCALE.                   *)
(***************************************************************************)
EXTENDS Integers, Sequences, FiniteSets, TLC

VARIABLES
    version,        \* which variant of the service runs: "svc" or "p3"
    loan,           \* the loan row (prisma.loan)
    installment,    \* the payment rows of the loan (prisma.installment), id -> row
    nextId,         \* next payment id; ids grow with createdAt
    skippedDates,   \* list resolved by newsService.getSkippedDatesForLoan
    today,          \* the current day (new Date())
    last,           \* outcome of the most recent request
    listing,        \* data returned by the most recent findAll
    procs,          \* create/remove calls in progress, step by step
    before,         \* history: loan row read by the most recent successful create
    cal,            \* inputs and results of the calendar functions
    preview,        \* data returned by the most recent calculateCoverage
    resolver,       \* which resolver calls of the most recent request succeeded
    news,           \* the active news records that apply to the loan
    resolved        \* lists returned by the most recent query of both resolvers

vars == <<version, loan, installment, nextId, skippedDates, today, last,
          listing, procs, before, cal, preview, resolver, news, resolved>>

----------------------------------------------------------------------------
(* Bounds *)

MaxCalDate == 430       \* last start date tried by the calendar check
MaxAddDays == 62        \* largest day count tried by the calendar check

----------------------------------------------------------------------------
(* JavaScript Date, at day granularity *)

DAYS_PER_MONTH == 30

Max(a, b) == IF a >= b THEN a ELSE b

Abs(a) == IF a < 0 THEN 0 - a ELSE a

IsLeap(y) == (y % 4 = 0 /\ y % 100 # 0) \/ y % 400 = 0

\* m is a JavaScript month index, 0 = January
DaysInMonth(y, m) ==
    IF m = 1 THEN (IF IsLeap(y) THEN 29 ELSE 28)
    ELSE IF m \in {3, 5, 8, 10} THEN 30 ELSE 31

\* days of a common year before month m
DaysBeforeMonth == <<0, 31, 59, 90, 120, 151, 181, 212, 243, 273, 304, 334>>

\* serial of the first day of month k, months counted from January 2024
\* (valid for the years 2024..2099, where every fourth year is a leap year)
MonthStart(k) ==
    LET y == 2024 + k \div 12
        m == k % 12
    IN 365 * (y - 2024) + (y - 2021) \div 4
         + DaysBeforeMonth[m + 1] + (IF m > 1 /\ IsLeap(y) THEN 1 ELSE 0)

\* the month that holds day s: months have 28 to 31 days
MonthIndex(s) ==
    CHOOSE k \in (s \div 31)..(s \div 28) :
        MonthStart(k) <= s /\ s < MonthStart(k + 1)

getFullYear(s) == 2024 + MonthIndex(s) \div 12

getMonth(s) == MonthIndex(s) % 12

getDate(s) == s - MonthStart(MonthIndex(s)) + 1

\* new Date(y, m, d): a month beyond December or a day outside the month
\* rolls over into the following (or preceding) months
MakeDate(y, m, d) == MonthStart((y - 2024) * 12 + m) + d - 1

setDate(s, d) == MakeDate(getFullYear(s), getMonth(s), d)

\* the day of the month is kept, so day 30 moved into February overflows
setMonth(s, m) == MakeDate(getFullYear(s), m, getDate(s))

addDays(s, n) == s + n

----------------------------------------------------------------------------
(* Logical calendar *)

\* the remaining days inside the month reached (installment.service.ts:73-76)
addLogicalDays_svc_days(date2, remaining2) ==
    IF remaining2 > 0
    THEN setDate(date2, getDate(date2) + remaining2)
    ELSE date2

\* the full 30-day months after the first of the next month (:66-71)
addLogicalDays_svc_months(date1, remaining1) ==
    addLogicalDays_svc_days(
        IF remaining1 \div DAYS_PER_MONTH > 0
        THEN setMonth(date1, getMonth(date1) + remaining1 \div DAYS_PER_MONTH)
        ELSE date1,
        remaining1 % DAYS_PER_MONTH)

\* date0 is the start date with day 31 already normalized to day 30 (:48-78)
addLogicalDays_svc_from(date0, currentDay, daysToAdd) ==
    IF daysToAdd <= DAYS_PER_MONTH - currentDay
    THEN setDate(date0, currentDay + daysToAdd)
    ELSE addLogicalDays_svc_months(
             setDate(setMonth(date0, getMonth(date0) + 1), 1),
             daysToAdd - (DAYS_PER_MONTH - currentDay + 1))

addLogicalDays_svc(startDate, daysToAdd) ==
    IF daysToAdd <= 0 THEN startDate
    ELSE addLogicalDays_svc_from(
             IF getDate(startDate) > DAYS_PER_MONTH
             THEN setDate(startDate, DAYS_PER_MONTH) ELSE startDate,
             IF getDate(startDate) > DAYS_PER_MONTH
             THEN DAYS_PER_MONTH ELSE getDate(startDate),
             daysToAdd)

\* the full months, then the day of the month is set (part_003:56-64)
addLogicalDays_p3_months(result1, remainingDays) ==
    setDate(setMonth(result1, getMonth(result1) + remainingDays \div DAYS_PER_MONTH),
            IF remainingDays % DAYS_PER_MONTH = 0 THEN DAYS_PER_MONTH
            ELSE remainingDays % DAYS_PER_MONTH)

addLogicalDays_p3_from(startDate, currentDay, daysToAdd) ==
    IF daysToAdd <= DAYS_PER_MONTH - currentDay
    THEN setDate(startDate, currentDay + daysToAdd)
    ELSE addLogicalDays_p3_months(
             setMonth(startDate, getMonth(startDate) + 1),
             daysToAdd - (DAYS_PER_MONTH - currentDay))

addLogicalDays_p3(startDate, daysToAdd) ==
    IF daysToAdd = 0 THEN startDate
    ELSE addLogicalDays_p3_from(startDate, getDate(startDate), daysToAdd)

addLogicalDays(v, startDate, daysToAdd) ==
    IF v = "svc" THEN addLogicalDays_svc(startDate, daysToAdd)
    ELSE addLogicalDays_p3(startDate, daysToAdd)

\* borrow one month when the day difference is negative
\* (installment.service.ts:96-103)
logicalDays(months0, days0) ==
    IF days0 < 0
    THEN (months0 - 1) * DAYS_PER_MONTH + days0 + DAYS_PER_MONTH
    ELSE months0 * DAYS_PER_MONTH + days0

\* variant: day 31 counts as day 30
logicalDaysBetween_clamped(earlierDate, laterDate) ==
    logicalDays((getFullYear(laterDate) - getFullYear(earlierDate)) * 12
                  + (getMonth(laterDate) - getMonth(earlierDate)),
                (IF getDate(laterDate) > DAYS_PER_MONTH THEN DAYS_PER_MONTH
                 ELSE getDate(laterDate))
                  - (IF getDate(earlierDate) > DAYS_PER_MONTH THEN DAYS_PER_MONTH
                     ELSE getDate(earlierDate)))

\* the difference of two ordered dates (:93-103)
logicalDaysBetween(earlierDate, laterDate) ==
    logicalDays((getFullYear(laterDate) - getFullYear(earlierDate)) * 12
                  + (getMonth(laterDate) - getMonth(earlierDate)),
                getDate(laterDate) - getDate(earlierDate))

getLogicalDaysDifference(startDate, endDate) ==
    IF endDate < startDate
    THEN 0 - logicalDaysBetween(endDate, startDate)
    ELSE logicalDaysBetween(startDate, endDate)

----------------------------------------------------------------------------
(* Fixed-point fractions *)

\* Daily rates of the modelled loans: base rate 1..2, gps rate 0..1, so the
\* total daily rate is 1, 2 or 3 and divides SCALE.
SCALE == 2 * 3

NULL == 0 - 1

\* JavaScript numbers and Dates that are not finite: x / 0 for x > 0, and the
\* Date that setMonth(Infinity) leaves behind
Infinity == 0 - 3

InvalidDate == 0 - 4

\* a / b in units of 1/SCALE; the modelled numerators are positive
jsDivide(a, b) == IF b = 0 THEN Infinity ELSE (a * SCALE) \div b

BaseRates == {1, 2}

GpsRates == {0, 1}

----------------------------------------------------------------------------
(* Skipped dates *)

isDateSkipped(date, skipped) ==
    \E i \in DOMAIN skipped : skipped[i] = date

countSkippedDatesInRange(startDate, endDate, skipped) ==
    Cardinality({i \in DOMAIN skipped :
                    skipped[i] >= startDate /\ skipped[i] <= endDate})

calculateEffectiveDays(startDate, endDate, skipped) ==
    getLogicalDaysDifference(startDate, endDate)
      - countSkippedDatesInRange(startDate, endDate, skipped)

----------------------------------------------------------------------------
(* Coverage ledger *)

totalDailyRate(l) == l.installmentPaymentAmmount + l.gpsInstallmentPayment

RECURSIVE SumOver(_, _, _)
\* sum of f[i] over the ids in S
SumOver(f, S, field) ==
    IF S = {} THEN 0
    ELSE LET i == CHOOSE x \in S : TRUE
         IN (IF field = "amount" THEN f[i].amount ELSE f[i].amount + f[i].gps)
            + SumOver(f, S \ {i}, field)

\* totalWorkingDaysCovered, in units of 1/SCALE day, over the rows in ids
totalWorkingDaysCovered(l, rows, ids) ==
    LET rate == totalDailyRate(l)
        daysCoveredByDownPayment ==
            IF rate > 0 /\ l.downPayment > 0
            THEN (l.downPayment * SCALE) \div rate ELSE 0
    IN daysCoveredByDownPayment
         + (IF ids = {} THEN 0 ELSE jsDivide(SumOver(rows, ids, "total"), rate))

\* the provisional date pushed forward by the skipped dates up to it
\* (installment.service.ts:186-203)
lastCoveredAfterSkipped(v, startDate, provisional, skipped) ==
    IF countSkippedDatesInRange(startDate, provisional, skipped) > 0
    THEN addLogicalDays(v, provisional,
                        countSkippedDatesInRange(startDate, provisional, skipped))
    ELSE provisional

\* total is totalWorkingDaysCovered, in units of 1/SCALE day
lastCoveredFromTotal(v, startDate, total, skipped) ==
    IF total = 0 THEN startDate
    ELSE lastCoveredAfterSkipped(
             v, startDate,
             IF v = "svc"
             THEN addLogicalDays_svc(startDate, total \div SCALE)
             ELSE addLogicalDays_p3(addDays(startDate, 1), total \div SCALE - 1),
             skipped)

\* getLastCoveredDate over the rows in ids (the excluded id already left out)
getLastCoveredDate(v, l, rows, ids, skipped) ==
    lastCoveredFromTotal(v, l.startDate, totalWorkingDaysCovered(l, rows, ids), skipped)

----------------------------------------------------------------------------
(* Payment coverage calculator *)

\* variant: coverage starts the day after lastCoveredDate, skipped or not
coverageStart_noSkip(first, skipped) == first

\* the first day after lastCoveredDate that is not skipped
coverageStart(first, skipped) ==
    CHOOSE s \in first..(first + Len(skipped)) :
        /\ ~isDateSkipped(s, skipped)
        /\ \A u \in first..(s - 1) : isDateSkipped(u, skipped)

\* the end date pushed forward by the skipped dates inside the range
coverageEndAfterSkipped(v, coverageStartDate, end0, skipped) ==
    IF countSkippedDatesInRange(coverageStartDate, end0, skipped) > 0
    THEN addLogicalDays(v, end0,
                        countSkippedDatesInRange(coverageStartDate, end0, skipped))
    ELSE end0

coverageEnd(v, coverageStartDate, wholeDays, skipped) ==
    coverageEndAfterSkipped(
        v, coverageStartDate,
        IF wholeDays > 0
        THEN addLogicalDays(v, coverageStartDate, wholeDays - 1)
        ELSE coverageStartDate,
        skipped)

coverageResult(daysCovered, coverageStartDate, coverageEndDate, isLate) ==
    [daysCovered |-> daysCovered,
     coverageStartDate |-> coverageStartDate,
     coverageEndDate |-> coverageEndDate,
     isLate |-> isLate,
     latePaymentDate |-> IF isLate THEN coverageStartDate ELSE NULL]

\* daysCovered is in units of 1/SCALE day. With daysCovered = Infinity,
\* addLogicalDays computes fullMonths = Infinity and setMonth makes the Date
\* invalid; no skipped date compares <= an invalid Date
coverageFrom(v, daysCovered, coverageStartDate, paymentDate, skipped) ==
    coverageResult(daysCovered, coverageStartDate,
                   IF daysCovered = Infinity THEN InvalidDate
                   ELSE coverageEnd(v, coverageStartDate, daysCovered \div SCALE,
                                    skipped),
                   coverageStartDate <= paymentDate)

calculatePaymentCoverageWithSkippedDates(v, paymentAmount, dailyRate, lastCoveredDate, paymentDate, skipped) ==
    coverageFrom(v, jsDivide(paymentAmount, dailyRate),
                 coverageStart(addDays(lastCoveredDate, 1), skipped),
                 paymentDate, skipped)

----------------------------------------------------------------------------
(* Payment create: validation, the row written, the loan update *)

MaxPayments == 2        \* payments created in one behaviour
MaxAmount == 3          \* largest base amount of a request
MaxGps == 2             \* largest gps amount of a request
MaxElapsed == 3         \* days the clock may run past the loan's start date

Dtos == [amount : 1..MaxAmount, gps : 0..MaxGps]

\* variant: only a COMPLETED loan is refused
statusRejects_completedOnly(l) == l.status = "COMPLETED"

statusRejects(l) == l.status = "COMPLETED" \/ l.status = "DEFAULTED"

\* variant: the amount is not compared with the remaining debt
createError_statusOnly(l, dto) ==
    IF statusRejects(l) THEN "BadRequest: loan status" ELSE "none"

createError(l, dto) ==
    IF statusRejects(l) THEN "BadRequest: loan status"
    ELSE IF dto.amount > l.debtRemaining THEN "BadRequest: exceeds remaining debt"
    ELSE "none"

\* variant: the distance from the schedule is stored in both columns
snapshotColumns_unsplit(rate, exactInstallmentsOwedBeforePayment, daysCoveredByThisPayment, netPosition) ==
    [exactInstallmentsOwed |-> exactInstallmentsOwedBeforePayment,
     remainingAmountOwed |-> exactInstallmentsOwedBeforePayment * rate,
     daysBehind |-> Abs(netPosition),
     daysAhead |-> Abs(netPosition),
     isUpToDate |-> 100 * Abs(netPosition) < SCALE,
     daysCoveredByPayment |-> daysCoveredByThisPayment,
     remainingAmountOwedAfter |-> Abs(netPosition) * rate]

\* the snapshot columns; netPosition and the day counts in units of 1/SCALE day
snapshotColumns(rate, exactInstallmentsOwedBeforePayment, daysCoveredByThisPayment, netPosition) ==
    [exactInstallmentsOwed |-> exactInstallmentsOwedBeforePayment,
     remainingAmountOwed |-> exactInstallmentsOwedBeforePayment * rate,
     daysBehind |-> IF netPosition < 0 THEN Abs(netPosition) ELSE 0,
     daysAhead |-> IF netPosition > 0 THEN netPosition ELSE 0,
     isUpToDate |-> 100 * Abs(netPosition) < SCALE,
     daysCoveredByPayment |-> daysCoveredByThisPayment,
     remainingAmountOwedAfter |->
         (IF netPosition < 0 THEN Abs(netPosition) ELSE 0) * rate]

\* variant: the position after the payment leaves the payment out
snapshotFrom_unapplied(rate, totalDaysCoveredBeforePayment, daysOwedBeforePayment, daysCoveredByThisPayment) ==
    snapshotColumns(
        rate,
        Max(0, daysOwedBeforePayment * SCALE - totalDaysCoveredBeforePayment),
        daysCoveredByThisPayment,
        totalDaysCoveredBeforePayment - daysOwedBeforePayment * SCALE)

\* daysOwedBeforePayment in whole days, the other counts in units of 1/SCALE day
snapshotFrom(rate, totalDaysCoveredBeforePayment, daysOwedBeforePayment, daysCoveredByThisPayment) ==
    snapshotColumns(
        rate,
        Max(0, daysOwedBeforePayment * SCALE - totalDaysCoveredBeforePayment),
        daysCoveredByThisPayment,
        totalDaysCoveredBeforePayment + daysCoveredByThisPayment
          - daysOwedBeforePayment * SCALE)

\* variant: the new payment is already counted in the days covered before it
debtSnapshot_afterInsert(l, dto, rows, skipped, td) ==
    snapshotFrom(
        totalDailyRate(l),
        totalWorkingDaysCovered(l, rows, DOMAIN rows)
          + ((dto.amount + dto.gps) * SCALE) \div totalDailyRate(l),
        getLogicalDaysDifference(l.startDate, addDays(td, 0 - 1))
          - countSkippedDatesInRange(l.startDate, addDays(td, 0 - 1), skipped),
        ((dto.amount + dto.gps) * SCALE) \div totalDailyRate(l))

\* debt snapshot and post-payment status frozen on the new row (part_003 only);
\* money in units of 1/SCALE
debtSnapshot(l, dto, rows, skipped, td) ==
    snapshotFrom(
        totalDailyRate(l),
        totalWorkingDaysCovered(l, rows, DOMAIN rows),
        getLogicalDaysDifference(l.startDate, addDays(td, 0 - 1))
          - countSkippedDatesInRange(l.startDate, addDays(td, 0 - 1), skipped),
        ((dto.amount + dto.gps) * SCALE) \div totalDailyRate(l))

\* the version without snapshot columns writes none of them
noSnapshot ==
    [exactInstallmentsOwed |-> NULL, remainingAmountOwed |-> NULL,
     daysBehind |-> NULL, daysAhead |-> NULL, isUpToDate |-> FALSE,
     daysCoveredByPayment |-> NULL, remainingAmountOwedAfter |-> NULL]

\* the columns of the new row
installmentData(id, dto, td, coverage, snap) ==
    [id |-> id,
     amount |-> dto.amount,
     gps |-> dto.gps,
     paymentDate |-> td,
     isLate |-> coverage.isLate,
     latePaymentDate |-> coverage.latePaymentDate,
     isAdvance |-> coverage.coverageEndDate >= td,
     advancePaymentDate |-> coverage.coverageEndDate,
     exactInstallmentsOwed |-> snap.exactInstallmentsOwed,
     remainingAmountOwed |-> snap.remainingAmountOwed,
     daysBehind |-> snap.daysBehind,
     daysAhead |-> snap.daysAhead,
     isUpToDate |-> snap.isUpToDate,
     daysCoveredByPayment |-> snap.daysCoveredByPayment,
     remainingAmountOwedAfter |-> snap.remainingAmountOwedAfter]

\* data of prisma.installment.create; rows are the payments stored so far
newInstallment(v, l, dto, rows, skipped, td, id) ==
    installmentData(
        id, dto, td,
        calculatePaymentCoverageWithSkippedDates(
            v, dto.amount + dto.gps, totalDailyRate(l),
            getLastCoveredDate(v, l, rows, DOMAIN rows, skipped), td, skipped),
        IF v = "p3" THEN debtSnapshot(l, dto, rows, skipped, td) ELSE noSnapshot)

\* variant: the insert also refreshes the pre-payment debt of the older rows
rowsAfterCreate_refresh(rows, row) ==
    [i \in (DOMAIN rows) \cup {row.id} |->
        IF i = row.id THEN row
        ELSE [rows[i] EXCEPT !.exactInstallmentsOwed = row.exactInstallmentsOwed,
                             !.remainingAmountOwed = row.remainingAmountOwed]]

\* prisma.installment.create adds one row and touches no other
rowsAfterCreate(rows, row) == rows @@ (row.id :> row)

\* prisma.installment.delete removes one row and touches no other
rowsAfterDelete(rows, id) == [i \in (DOMAIN rows) \ {id} |-> rows[i]]

\* variant: the status looks at the debt only
newStatus_debtOnly(updatedDebt, updatedRemaining) ==
    IF updatedDebt <= 0 THEN "COMPLETED" ELSE "ACTIVE"

newStatus(updatedDebt, updatedRemaining) ==
    IF updatedDebt <= 0 \/ updatedRemaining <= 0 THEN "COMPLETED" ELSE "ACTIVE"

\* variant: the gps part is added to totalPaid as well
loanAfterCreate_totalWithGps(l, dto, newLastCoveredDate) ==
    LET fractionalInstallmentsPaid ==
            ((dto.amount + dto.gps) * SCALE) \div totalDailyRate(l)
        updatedPaid == l.paidInstallments + fractionalInstallmentsPaid
        updatedRemaining == Max(0, l.installments * SCALE - updatedPaid)
        updatedTotalPaid == l.totalPaid + dto.amount + dto.gps
        updatedDebt == Max(0, l.debtRemaining - dto.amount)
    IN [l EXCEPT !.paidInstallments = updatedPaid,
                 !.remainingInstallments = updatedRemaining,
                 !.totalPaid = updatedTotalPaid,
                 !.debtRemaining = updatedDebt,
                 !.status = newStatus(updatedDebt, updatedRemaining),
                 !.lastCoveredDate = newLastCoveredDate]

\* data of prisma.loan.update in create; l is the loan row read at the start
loanAfterCreate(l, dto, newLastCoveredDate) ==
    LET fractionalInstallmentsPaid ==
            ((dto.amount + dto.gps) * SCALE) \div totalDailyRate(l)
        updatedPaid == l.paidInstallments + fractionalInstallmentsPaid
        updatedRemaining == Max(0, l.installments * SCALE - updatedPaid)
        updatedTotalPaid == l.totalPaid + dto.amount
        updatedDebt == Max(0, l.debtRemaining - dto.amount)
    IN [l EXCEPT !.paidInstallments = updatedPaid,
                 !.remainingInstallments = updatedRemaining,
                 !.totalPaid = updatedTotalPaid,
                 !.debtRemaining = updatedDebt,
                 !.status = newStatus(updatedDebt, updatedRemaining),
                 !.lastCoveredDate = newLastCoveredDate]

\* data of prisma.loan.update in remove; every modelled loan has a positive
\* base rate, so installmentAmount is loan.installmentPaymentAmmount
loanAfterRemove(l, inst, newLastCoveredDate) ==
    LET installmentAmount == l.installmentPaymentAmmount
        fractionalInstallmentsPaid == (inst.amount * SCALE) \div installmentAmount
        updatedPaid == Max(0, l.paidInstallments - fractionalInstallmentsPaid)
        updatedRemaining == l.installments * SCALE - updatedPaid
        updatedTotalPaid == Max(0, l.totalPaid - inst.amount)
        updatedDebt == l.debtRemaining + inst.amount
    IN [l EXCEPT !.paidInstallments = updatedPaid,
                 !.remainingInstallments = updatedRemaining,
                 !.totalPaid = updatedTotalPaid,
                 !.debtRemaining = updatedDebt,
                 !.status = newStatus(updatedDebt, updatedRemaining),
                 !.lastCoveredDate = newLastCoveredDate]

----------------------------------------------------------------------------
(* Initial states *)

Versions == {"svc", "p3"}

LoanSizes == {4}

DownPayments == {0, 2}

\* 2024-01-30, 2025-02-27
StartDates == {MakeDate(2024, 0, 30), MakeDate(2025, 1, 27)}

\* skipped dates as offsets from the loan's start date
SkipOffsets == {<<>>, <<1, 3>>}

InitElapsed == {2}

Procs == {1, 2}

IdleProc == [pc |-> "idle"]

NoRequest == [op |-> "none", outcome |-> "none"]

NoBefore == [id |-> NULL]

NoPreview == [loanId |-> NULL]

\* no request has called the resolver under observation
NoResolver == <<>>

\* no query has been answered
NoResolved == [forLoan |-> <<>>, batch |-> <<>>]

CalOff == [pc |-> "off", d |-> 0, n |-> 0, r |-> 0, diff |-> 0]

\* a loan on which nothing has been paid yet
FreshLoan(v, n, b, g, dp, start, skipped) ==
    LET l == [installments |-> n,
              installmentPaymentAmmount |-> b,
              gpsInstallmentPayment |-> g,
              downPayment |-> dp,
              startDate |-> start,
              paidInstallments |-> 0,
              remainingInstallments |-> n * SCALE,
              totalPaid |-> 0,
              debtRemaining |-> n * b,
              status |-> "ACTIVE",
              lastCoveredDate |-> start]
    IN [l EXCEPT !.lastCoveredDate = getLastCoveredDate(v, l, <<>>, {}, skipped)]

InitLedger(vs, sizes, bs, gs, dps, starts, skips, elapsed) ==
    /\ version \in vs
    /\ \E n \in sizes, b \in bs, g \in gs, dp \in dps, start \in starts,
          off \in skips, e \in elapsed :
          /\ skippedDates = [i \in DOMAIN off |-> start + off[i]]
          /\ loan = FreshLoan(version, n, b, g, dp, start, skippedDates)
          /\ today = start + e
    /\ installment = <<>>
    /\ nextId = 1
    /\ last = NoRequest
    /\ listing = <<>>
    /\ procs = [p \in Procs |-> IdleProc]
    /\ before = NoBefore
    /\ preview = NoPreview
    /\ resolver = NoResolver
    /\ news = <<>>
    /\ resolved = NoResolved

Init ==
    /\ InitLedger(Versions, LoanSizes, BaseRates, GpsRates, DownPayments,
                  StartDates, SkipOffsets, InitElapsed)
    /\ cal = CalOff

----------------------------------------------------------------------------
(* Requests, each executed from start to end without another in between *)

\* the writes of create once the row is built; rows2 holds the new row and
\* skipped is the list resolved inside the second getLastCoveredDate
CreateWrite(dto, err, rows2, skipped) ==
    IF err # "none"
    THEN /\ last' = [op |-> "create", outcome |-> err]
         /\ UNCHANGED <<loan, installment, nextId, before>>
    ELSE /\ installment' = rows2
         /\ loan' = loanAfterCreate(
                        loan, dto,
                        getLastCoveredDate(version, loan, rows2, DOMAIN rows2,
                                           skipped))
         /\ nextId' = nextId + 1
         /\ last' = [op |-> "create", outcome |-> "ok"]
         /\ before' = [id |-> nextId, loan |-> loan]

Create(dto) ==
    /\ nextId <= MaxPayments
    /\ CreateWrite(dto, createError(loan, dto),
                   rowsAfterCreate(installment,
                                   newInstallment(version, loan, dto, installment,
                                                  skippedDates, today, nextId)),
                   skippedDates)
    /\ listing' = <<>>
    /\ UNCHANGED <<version, skippedDates, today, procs, cal, preview, resolver, news, resolved>>

Remove(id) ==
    /\ IF id \notin DOMAIN installment
       THEN /\ last' = [op |-> "remove", outcome |-> "NotFound"]
            /\ UNCHANGED <<loan, installment, before>>
       ELSE /\ installment' = rowsAfterDelete(installment, id)
            /\ loan' = loanAfterRemove(
                           loan, installment[id],
                           getLastCoveredDate(version, loan, installment,
                                              (DOMAIN installment) \ {id},
                                              skippedDates))
            /\ last' = [op |-> "remove", outcome |-> "ok"]
            /\ before' = NoBefore
    /\ listing' = <<>>
    /\ UNCHANGED <<version, nextId, skippedDates, today, procs, cal, preview, resolver, news, resolved>>

\* the loan is declared in default by a collaborator outside the service
ExternalDefault ==
    /\ loan.status = "ACTIVE"
    /\ loan' = [loan EXCEPT !.status = "DEFAULTED"]
    /\ before' = NoBefore
    /\ UNCHANGED <<version, installment, nextId, skippedDates, today, last,
                   listing, procs, cal, preview, resolver, news, resolved>>

\* the clock passes midnight
AdvanceDay ==
    /\ today < loan.startDate + MaxElapsed
    /\ today' = today + 1
    /\ UNCHANGED <<version, loan, installment, nextId, skippedDates, last,
                   listing, procs, before, cal, preview, resolver, news, resolved>>

CreateAny == \E dto \in Dtos : Create(dto)

RemoveAny == \E id \in 1..MaxPayments : Remove(id)

Next ==
    \/ CreateAny
    \/ RemoveAny
    \/ ExternalDefault

Spec == Init /\ [][Next]_vars

----------------------------------------------------------------------------
(* The same requests step by step: every await of the handler is a step, a   *)
(* handler keeps what it has read in its local variables                     *)

AllIdle == \A p \in Procs : procs[p].pc = "idle"

\* creates that have passed validation and not yet inserted their row
PendingInserts ==
    Cardinality({p \in Procs : procs[p].pc \in {"c_compute", "c_insert"}})

\* create: loan.findUnique and the two validations
CreateStart(p, dto, alone) ==
    /\ procs[p].pc = "idle"
    /\ alone => AllIdle
    /\ nextId + PendingInserts <= MaxPayments
    /\ LET err == createError(loan, dto)
       IN IF err # "none"
          THEN /\ last' = [op |-> "create", outcome |-> err]
               /\ UNCHANGED procs
          ELSE /\ procs' = [procs EXCEPT ![p] =
                              [pc |-> "c_compute", dto |-> dto, loan |-> loan]]
               /\ UNCHANGED last
    /\ UNCHANGED <<version, loan, installment, nextId, skippedDates, today,
                   listing, before, cal, preview, resolver, news, resolved>>

\* create: getLastCoveredDate, the coverage and the snapshot, from the rows read now
CreateCompute(p) ==
    /\ procs[p].pc = "c_compute"
    /\ procs' = [procs EXCEPT ![p] =
                    [pc |-> "c_insert", dto |-> procs[p].dto, loan |-> procs[p].loan,
                     row |-> newInstallment(version, procs[p].loan, procs[p].dto,
                                            installment, skippedDates, today, NULL)]]
    /\ UNCHANGED <<version, loan, installment, nextId, skippedDates, today, last,
                   listing, before, cal, preview, resolver, news, resolved>>

\* create: prisma.installment.create
CreateInsert(p) ==
    /\ procs[p].pc = "c_insert"
    /\ installment' = rowsAfterCreate(installment,
                                      [procs[p].row EXCEPT !.id = nextId])
    /\ nextId' = nextId + 1
    /\ procs' = [procs EXCEPT ![p] =
                    [pc |-> "c_recompute", dto |-> procs[p].dto,
                     loan |-> procs[p].loan]]
    /\ UNCHANGED <<version, loan, skippedDates, today, last, listing, before, cal, preview, resolver, news, resolved>>

\* create: the second getLastCoveredDate
CreateRecompute(p) ==
    /\ procs[p].pc = "c_recompute"
    /\ procs' = [procs EXCEPT ![p] =
                    [pc |-> "c_update", dto |-> procs[p].dto, loan |-> procs[p].loan,
                     newLastCoveredDate |->
                        getLastCoveredDate(version, procs[p].loan, installment,
                                           DOMAIN installment, skippedDates)]]
    /\ UNCHANGED <<version, loan, installment, nextId, skippedDates, today, last,
                   listing, before, cal, preview, resolver, news, resolved>>

\* create: prisma.loan.update, computed from the loan row read at the start
CreateUpdateLoan(p) ==
    /\ procs[p].pc = "c_update"
    /\ loan' = loanAfterCreate(procs[p].loan, procs[p].dto,
                               procs[p].newLastCoveredDate)
    /\ procs' = [procs EXCEPT ![p] = IdleProc]
    /\ last' = [op |-> "create", outcome |-> "ok"]
    /\ UNCHANGED <<version, installment, nextId, skippedDates, today, listing,
                   before, cal, preview, resolver, news, resolved>>

\* remove: findOne and loan.findUnique
RemoveStart(p, id, alone) ==
    /\ procs[p].pc = "idle"
    /\ alone => AllIdle
    /\ IF id \notin DOMAIN installment
       THEN /\ last' = [op |-> "remove", outcome |-> "NotFound"]
            /\ UNCHANGED procs
       ELSE /\ procs' = [procs EXCEPT ![p] =
                           [pc |-> "r_delete", inst |-> installment[id],
                            loan |-> loan]]
            /\ UNCHANGED last
    /\ UNCHANGED <<version, loan, installment, nextId, skippedDates, today,
                   listing, before, cal, preview, resolver, news, resolved>>

\* remove: prisma.installment.delete
RemoveDelete(p) ==
    /\ procs[p].pc = "r_delete"
    /\ procs[p].inst.id \in DOMAIN installment
    /\ installment' = rowsAfterDelete(installment, procs[p].inst.id)
    /\ procs' = [procs EXCEPT ![p].pc = "r_recompute"]
    /\ UNCHANGED <<version, loan, nextId, skippedDates, today, last, listing,
                   before, cal, preview, resolver, news, resolved>>

\* remove: getLastCoveredDate excluding the deleted id
RemoveRecompute(p) ==
    /\ procs[p].pc = "r_recompute"
    /\ procs' = [procs EXCEPT ![p] =
                    [pc |-> "r_update", inst |-> procs[p].inst, loan |-> procs[p].loan,
                     newLastCoveredDate |->
                        getLastCoveredDate(version, procs[p].loan, installment,
                                           (DOMAIN installment) \ {procs[p].inst.id},
                                           skippedDates)]]
    /\ UNCHANGED <<version, loan, installment, nextId, skippedDates, today, last,
                   listing, before, cal, preview, resolver, news, resolved>>

\* remove: prisma.loan.update
RemoveUpdateLoan(p) ==
    /\ procs[p].pc = "r_update"
    /\ loan' = loanAfterRemove(procs[p].loan, procs[p].inst,
                               procs[p].newLastCoveredDate)
    /\ procs' = [procs EXCEPT ![p] = IdleProc]
    /\ last' = [op |-> "remove", outcome |-> "ok"]
    /\ UNCHANGED <<version, installment, nextId, skippedDates, today, listing,
                   before, cal, preview, resolver, news, resolved>>

\* a persistence write (installment.create, installment.delete, loan.update)
\* throws: the handler stops there and the error reaches the caller; nothing
\* written before it is undone, the handlers open no transaction
PersistenceFailure(p) ==
    /\ procs[p].pc \in {"c_insert", "c_update", "r_delete", "r_update"}
    /\ procs' = [procs EXCEPT ![p] = IdleProc]
    /\ last' = [op |-> IF procs[p].pc \in {"c_insert", "c_update"}
                       THEN "create" ELSE "remove",
                outcome |-> "persistence error"]
    /\ UNCHANGED <<version, loan, installment, nextId, skippedDates, today,
                   listing, before, cal, preview, resolver, news, resolved>>

\* two creates on the loan, their steps interleaved in every order
InitConc ==
    /\ InitLedger(Versions, LoanSizes, BaseRates, {0}, {0},
                  {MakeDate(2024, 0, 30)}, {<<>>}, InitElapsed)
    /\ cal = CalOff

NextConc ==
    \E p \in Procs :
        \/ \E dto \in Dtos : CreateStart(p, dto, FALSE)
        \/ CreateCompute(p)
        \/ CreateInsert(p)
        \/ CreateRecompute(p)
        \/ CreateUpdateLoan(p)

SpecConc == InitConc /\ [][NextConc]_vars

\* one request at a time, any persistence write may fail
InitFail ==
    /\ InitLedger(Versions, LoanSizes, BaseRates, {0}, {0},
                  {MakeDate(2024, 0, 30)}, {<<>>}, InitElapsed)
    /\ cal = CalOff

NextFail ==
    \E p \in {1} :
        \/ \E dto \in Dtos : CreateStart(p, dto, TRUE)
        \/ CreateCompute(p)
        \/ CreateInsert(p)
        \/ CreateRecompute(p)
        \/ CreateUpdateLoan(p)
        \/ \E id \in 1..MaxPayments : RemoveStart(p, id, TRUE)
        \/ RemoveDelete(p)
        \/ RemoveRecompute(p)
        \/ RemoveUpdateLoan(p)
        \/ PersistenceFailure(p)

SpecFail == InitFail /\ [][NextFail]_vars

----------------------------------------------------------------------------
(* Payment listing *)

MaxPage == 2            \* pages requested from findAll
MaxLimit == 2           \* page sizes requested from findAll

\* filters of the modelled requests: an optional upper bound on the amount
Filters == [maxAmount : {NULL} \cup 1..MaxAmount]

RECURSIVE DescSeq(_)
\* orderBy createdAt desc: ids grow with createdAt
DescSeq(S) ==
    IF S = {} THEN <<>>
    ELSE LET m == CHOOSE x \in S : \A y \in S : y <= x
         IN <<m>> \o DescSeq(S \ {m})

\* currentDaysBehind of the loan, in units of 1/SCALE day
currentDaysBehind(v, l, rows, skipped, td) ==
    LET totalDaysCovered == totalWorkingDaysCovered(l, rows, DOMAIN rows)
        daysOwed ==
            IF v = "svc"
            THEN Cardinality({d \in (l.startDate + 1)..td : ~isDateSkipped(d, skipped)})
            ELSE getLogicalDaysDifference(l.startDate, td)
                   - countSkippedDatesInRange(l.startDate, td, skipped)
    IN daysOwed * SCALE - totalDaysCovered

findAll(v, l, rows, skipped, td, filters, page, limit) ==
    LET where == {i \in DOMAIN rows :
                     filters.maxAmount # NULL => rows[i].amount <= filters.maxAmount}
        ordered == DescSeq(where)
        skip == (page - 1) * limit
        data == SubSeq(ordered, skip + 1,
                       IF skip + limit < Len(ordered) THEN skip + limit
                       ELSE Len(ordered))
        \* first occurrence of the loan in the page
        mostRecentInstallment == IF data = <<>> THEN NULL ELSE data[1]
        behind == currentDaysBehind(v, l, rows, skipped, td)
        lastCovered == getLastCoveredDate(v, l, rows, DOMAIN rows, skipped)
        stored(i) == [row |-> rows[i],
                      currentDaysBehind |-> 0,
                      lastCoveredDate |-> NULL,
                      isLatestInstallment |-> FALSE]
        enriched(i) ==
            [row |-> IF v = "p3"
                     THEN [rows[i] EXCEPT
                             !.exactInstallmentsOwed = IF behind > 0 THEN behind ELSE 0,
                             !.remainingAmountOwed =
                                 IF behind > 0 THEN behind * totalDailyRate(l) ELSE 0]
                     ELSE rows[i],
             currentDaysBehind |-> behind,
             lastCoveredDate |-> lastCovered,
             isLatestInstallment |-> TRUE]
    IN [k \in DOMAIN data |->
           IF data[k] = mostRecentInstallment THEN enriched(data[k])
           ELSE stored(data[k])]

FindAll(filters, page, limit) ==
    /\ listing' = findAll(version, loan, installment, skippedDates, today,
                          filters, page, limit)
    /\ UNCHANGED <<version, loan, installment, nextId, skippedDates, today, last,
                   procs, before, cal, preview, resolver, news, resolved>>

FindAllAny ==
    \E filters \in Filters, page \in 1..MaxPage, limit \in 1..MaxLimit :
        FindAll(filters, page, limit)

InitList ==
    /\ InitLedger(Versions, LoanSizes, {1}, {0}, {0},
                  {MakeDate(2024, 0, 30)}, SkipOffsets, {1})
    /\ cal = CalOff

NextList ==
    \/ CreateAny
    \/ RemoveAny
    \/ FindAllAny
    \/ AdvanceDay

SpecList == InitList /\ [][NextList]_vars

----------------------------------------------------------------------------
(* The calendar functions applied to a start date and a day count *)

InitCal ==
    /\ InitLedger(Versions, LoanSizes, {1}, {0}, {0},
                  {MakeDate(2024, 0, 30)}, {<<>>}, {1})
    /\ cal \in [pc : {"in"}, d : 0..MaxCalDate, n : 0..MaxAddDays, r : {0}, diff : {0}]

CalAdd ==
    /\ cal.pc = "in"
    /\ cal' = [cal EXCEPT !.pc = "added",
                          !.r = addLogicalDays(version, cal.d, cal.n)]
    /\ UNCHANGED <<version, loan, installment, nextId, skippedDates, today, last,
                   listing, procs, before, preview, resolver, news, resolved>>

CalDiff ==
    /\ cal.pc = "added"
    /\ cal' = [cal EXCEPT !.pc = "done",
                          !.diff = getLogicalDaysDifference(cal.d, cal.r)]
    /\ UNCHANGED <<version, loan, installment, nextId, skippedDates, today, last,
                   listing, procs, before, preview, resolver, news, resolved>>

NextCal ==
    \/ CalAdd
    \/ CalDiff

SpecCal == InitCal /\ [][NextCal]_vars

----------------------------------------------------------------------------
(* Requests during which calls to the skipped-date resolver may throw *)

\* variant: the list is used whether or not the call succeeded
resolvedSkippedDates_stale(up, dates) == dates

\* let skippedDates = []; try { skippedDates = (await getSkippedDatesForLoan(..)).dates }
\* catch { }: a call that throws leaves the empty list
resolvedSkippedDates(up, dates) == IF up THEN dates ELSE <<>>

MaxDegradedPayments == 1    \* payments created while the resolver may throw
MaxDegradedAmount == 2      \* largest amount requested while it may throw

DegradedDtos == [amount : 1..MaxDegradedAmount, gps : {0}]

\* the outcomes of the resolver calls of one request, in call order
ResolverCalls(n) == [1..n -> BOOLEAN]

\* data of prisma.installment.create when getLastCoveredDate resolved the
\* list sLast and create itself resolved the list sOwn
createData(v, l, dto, rows, sLast, sOwn, td, id) ==
    installmentData(
        id, dto, td,
        calculatePaymentCoverageWithSkippedDates(
            v, dto.amount + dto.gps, totalDailyRate(l),
            getLastCoveredDate(v, l, rows, DOMAIN rows, sLast), td, sOwn),
        IF v = "p3" THEN debtSnapshot(l, dto, rows, sOwn, td) ELSE noSnapshot)

\* ups[1]: the call in the first getLastCoveredDate, ups[2]: the call of create
\* itself, ups[3]: the call in the second getLastCoveredDate
CreateDegraded(dto, ups) ==
    /\ nextId <= MaxDegradedPayments
    /\ CreateWrite(dto, createError(loan, dto),
                   rowsAfterCreate(
                       installment,
                       createData(version, loan, dto, installment,
                                  resolvedSkippedDates(ups[1], skippedDates),
                                  resolvedSkippedDates(ups[2], skippedDates),
                                  today, nextId)),
                   resolvedSkippedDates(ups[3], skippedDates))
    /\ resolver' = IF createError(loan, dto) # "none" THEN NoResolver ELSE ups
    /\ listing' = <<>>
    /\ preview' = NoPreview
    /\ UNCHANGED <<version, skippedDates, today, procs, cal, news, resolved>>

\* ups[1]: the call in getLastCoveredDate
RemoveDegraded(id, ups) ==
    /\ id \in DOMAIN installment
    /\ installment' = rowsAfterDelete(installment, id)
    /\ loan' = loanAfterRemove(
                   loan, installment[id],
                   getLastCoveredDate(version, loan, installment,
                                      (DOMAIN installment) \ {id},
                                      resolvedSkippedDates(ups[1], skippedDates)))
    /\ last' = [op |-> "remove", outcome |-> "ok"]
    /\ before' = NoBefore
    /\ resolver' = ups
    /\ listing' = <<>>
    /\ preview' = NoPreview
    /\ UNCHANGED <<version, nextId, skippedDates, today, procs, cal, news, resolved>>

\* the fields of the preview that both versions of the service return alike
coverageData(lastCoveredDate, coverage, td, sOwn) ==
    [loanId |-> 1,
     lastCoveredDate |-> lastCoveredDate,
     daysCovered |-> coverage.daysCovered,
     coverageStartDate |-> coverage.coverageStartDate,
     coverageEndDate |-> coverage.coverageEndDate,
     isLate |-> coverage.isLate,
     latePaymentDate |-> coverage.latePaymentDate,
     skippedDatesCount |-> countSkippedDatesInRange(lastCoveredDate, td, sOwn)]

coverageFromLast(v, amount, rate, lastCoveredDate, td, sOwn) ==
    coverageData(lastCoveredDate,
                 calculatePaymentCoverageWithSkippedDates(
                     v, amount, rate, lastCoveredDate, td, sOwn),
                 td, sOwn)

\* calculateCoverage of a total amount when the call itself resolved sOwn and
\* getLastCoveredDate resolved sLast
calculateCoverage(v, l, rows, amount, td, sOwn, sLast) ==
    coverageFromLast(v, amount, totalDailyRate(l),
                     getLastCoveredDate(v, l, rows, DOMAIN rows, sLast), td, sOwn)

\* ups[1]: the call of calculateCoverage itself, ups[2]: the call in
\* getLastCoveredDate
CalculateCoverageDegraded(amount, ups) ==
    /\ preview' = calculateCoverage(version, loan, installment, amount, today,
                                    resolvedSkippedDates(ups[1], skippedDates),
                                    resolvedSkippedDates(ups[2], skippedDates))
    /\ last' = [op |-> "calculateCoverage", outcome |-> "ok"]
    /\ resolver' = ups
    /\ UNCHANGED <<version, loan, installment, nextId, skippedDates, today,
                   listing, procs, before, cal, news, resolved>>

CreateDegradedAny ==
    \E dto \in DegradedDtos, ups \in ResolverCalls(3) : CreateDegraded(dto, ups)

RemoveDegradedAny ==
    \E id \in 1..MaxDegradedPayments, ups \in ResolverCalls(1) :
        RemoveDegraded(id, ups)

CalculateCoverageDegradedAny ==
    \E amount \in 1..MaxDegradedAmount, ups \in ResolverCalls(2) :
        CalculateCoverageDegraded(amount, ups)

InitDegraded ==
    /\ InitLedger(Versions, LoanSizes, {1}, {0}, {0},
                  {MakeDate(2024, 0, 30)}, {<<1, 3>>}, InitElapsed)
    /\ cal = CalOff

NextDegraded ==
    \/ CreateDegradedAny
    \/ RemoveDegradedAny
    \/ CalculateCoverageDegradedAny

SpecDegraded == InitDegraded /\ [][NextDegraded]_vars

----------------------------------------------------------------------------
(* The skipped-date resolver of the news service *)

MaxNews == 2            \* news records that apply to the loan
TicksPerDay == 2        \* instants distinguished within one calendar day

\* a Date of the news service is an instant: a calendar day and a time of day
Instant(day, tick) == day * TicksPerDay + tick

\* date-fns startOfDay, as the calendar day of the ledger
startOfDay(t) == t \div TicksPerDay

RECURSIVE AscSeq(_)
\* sort((a, b) => a.getTime() - b.getTime()) of a set of instants
AscSeq(S) ==
    IF S = {} THEN <<>>
    ELSE <<CHOOSE x \in S : \A y \in S : x <= y>>
           \o AscSeq(S \ {CHOOSE x \in S : \A y \in S : x <= y})

\* the months visited by the loop: from the month of the loan's start to the
\* month of today plus twelve months
recurringMonthsVisited(loanStart, td) ==
    MonthIndex(loanStart)..MonthIndex(setMonth(td, getMonth(td) + 12))

\* new Date(year, month, recurringDay) is local midnight; the date is kept if
\* the day exists in that month and is not before the loan's start
recurringDates(n, loanStart, td) ==
    IF n.isRecurring /\ n.recurringDay # 0
    THEN {Instant(MonthStart(k) + n.recurringDay - 1, 0) :
             k \in {j \in recurringMonthsVisited(loanStart, td) :
                       /\ n.recurringMonths = {} \/ (j % 12) + 1 \in n.recurringMonths
                       /\ getDate(MonthStart(j) + n.recurringDay - 1) = n.recurringDay
                       /\ MonthStart(j) + n.recurringDay - 1 >= loanStart}}
    ELSE {}

\* the dates one news record contributes
newsDates(n, loanStart, td) ==
    {n.skippedDates[i] : i \in DOMAIN n.skippedDates}
        \cup recurringDates(n, loanStart, td)

\* dates of getSkippedDatesForLoan: [...new Set(allDates.map(d => d.getTime()))]
\* sorted by getTime
getSkippedDatesForLoan(allNews, loanStart, td) ==
    AscSeq(UNION {newsDates(allNews[i], loanStart, td) : i \in DOMAIN allNews})

\* skippedDatesData.dates.map(d => startOfDay(new Date(d))) in the ledger
ledgerSkippedDates(dates) == [i \in DOMAIN dates |-> startOfDay(dates[i])]

\* the days on which the modelled news records skip explicitly
NewsDays == {MakeDate(2024, 1, 14), MakeDate(2024, 1, 15)}

ExplicitLists ==
    {<<>>} \cup {<<Instant(d, t)>> : d \in NewsDays, t \in 0..(TicksPerDay - 1)}

NewsRecords ==
    [skippedDates : ExplicitLists, isRecurring : {FALSE}, recurringDay : {0},
     recurringMonths : {{}}]
      \cup [skippedDates : {<<>>}, isRecurring : {TRUE}, recurringDay : {15, 31},
            recurringMonths : {{}, {2}}]

\* news.create: one more active record applies to the loan
CreateNews(n) ==
    /\ Len(news) < MaxNews
    /\ news' = Append(news, n)
    /\ UNCHANGED <<version, loan, installment, nextId, skippedDates, today, last,
                   listing, procs, before, cal, preview, resolver, resolved>>

\* a request of the ledger resolves the list
ResolveSkippedDates ==
    /\ skippedDates' = ledgerSkippedDates(
                           getSkippedDatesForLoan(news, loan.startDate, today))
    /\ UNCHANGED <<version, loan, installment, nextId, today, last, listing,
                   procs, before, cal, preview, resolver, news, resolved>>

CreateNewsAny == \E n \in NewsRecords : CreateNews(n)

InitNews ==
    /\ InitLedger(Versions, LoanSizes, {1}, {0}, {0},
                  {MakeDate(2024, 0, 30)}, {<<>>}, InitElapsed)
    /\ cal = CalOff

NextNews ==
    \/ CreateNewsAny
    \/ ResolveSkippedDates

SpecNews == InitNews /\ [][NextNews]_vars

----------------------------------------------------------------------------
(* Payment update *)

\* a field the request does not carry
Undefined == 0 - 2

\* requests of update: of the fields of the payment row the handler passes on,
\* the modelled requests carry paymentDate, latePaymentDate, amount and isLate.
\* notes, paymentMethod, attachmentUrl and updatedAt are not columns of the
\* modelled row.
UpdateDtos ==
    [paymentDate : {Undefined, 0},
     latePaymentDate : {Undefined, NULL, 0},
     amount : {Undefined, MaxAmount},
     isLate : {"undefined", "true"}]

\* const { loanId, createdById, paymentDate, latePaymentDate, ...rest } = dto;
\* every field of rest is written as it came
restData(row, dto) ==
    [row EXCEPT !.amount = IF dto.amount = Undefined THEN @ ELSE dto.amount,
                !.isLate = IF dto.isLate = "undefined" THEN @
                           ELSE dto.isLate = "true"]

\* data of prisma.installment.update; toColombiaUtc keeps the instant
updateData(row, dto) ==
    [restData(row, dto) EXCEPT
        !.paymentDate = IF dto.paymentDate = Undefined THEN @ ELSE dto.paymentDate,
        !.latePaymentDate =
            IF dto.latePaymentDate = Undefined THEN @ ELSE dto.latePaymentDate]

\* the modelled requests correct the payment that was created last; findOne
\* has found its row
Update(id, dto) ==
    /\ before.id = id
    /\ id \in DOMAIN installment
    /\ installment' = [installment EXCEPT ![id] = updateData(installment[id], dto)]
    /\ last' = [op |-> "update", outcome |-> "ok"]
    /\ before' = NoBefore
    /\ listing' = <<>>
    /\ UNCHANGED <<version, loan, nextId, skippedDates, today, procs, cal,
                   preview, resolver, news, resolved>>

UpdateAny == \E id \in 1..MaxPayments, dto \in UpdateDtos : Update(id, dto)

InitUpdate ==
    /\ InitLedger(Versions, LoanSizes, {1}, {0}, {0},
                  {MakeDate(2024, 0, 30)}, {<<>>}, InitElapsed)
    /\ cal = CalOff

NextUpdate ==
    \/ CreateAny
    \/ UpdateAny

SpecUpdate == InitUpdate /\ [][NextUpdate]_vars

----------------------------------------------------------------------------
(* A loan whose daily rates are both 0 *)

\* calculateCoverage with every resolver call answered
CalculateCoverage(amount) ==
    /\ preview' = calculateCoverage(version, loan, installment, amount, today,
                                    skippedDates, skippedDates)
    /\ last' = [op |-> "calculateCoverage", outcome |-> "ok"]
    /\ UNCHANGED <<version, loan, installment, nextId, skippedDates, today,
                   listing, procs, before, cal, resolver, news, resolved>>

CalculateCoverageAny == \E amount \in 1..MaxAmount : CalculateCoverage(amount)

InitZeroRate ==
    /\ InitLedger(Versions, LoanSizes, {0}, {0}, DownPayments,
                  StartDates, SkipOffsets, InitElapsed)
    /\ cal = CalOff

NextZeroRate ==
    \/ CalculateCoverageAny
    \/ CreateAny
    \/ AdvanceDay

SpecZeroRate == InitZeroRate /\ [][NextZeroRate]_vars

----------------------------------------------------------------------------
(* Coverage previews between payments *)

\* 2024-01-01, 2024-01-30
PreviewStartDates == {MakeDate(2024, 0, 1), MakeDate(2024, 0, 30)}

\* days between the loan's start and the requests
PreviewElapsed == {2, 3}

InitPreview ==
    /\ InitLedger(Versions, LoanSizes, BaseRates, {0}, DownPayments,
                  PreviewStartDates, SkipOffsets, PreviewElapsed)
    /\ cal = CalOff

\* payments without a gps part
PlainDtos == [amount : 1..MaxAmount, gps : {0}]

CreatePlainAny == \E dto \in PlainDtos : Create(dto)

\* the copy of the service kept in backfill-debt-snapshots.ts: real calendar
\* days, the base rate only, whole days only
getLastCoveredDate_backfill(l, rows, ids) ==
    LET dailyRate == l.installmentPaymentAmmount
        daysCoveredByDownPayment ==
            IF dailyRate > 0 /\ l.downPayment > 0
            THEN l.downPayment \div dailyRate ELSE 0
    IN IF ids = {}
       THEN (IF daysCoveredByDownPayment > 0
             THEN addDays(l.startDate, daysCoveredByDownPayment - 1)
             ELSE addDays(l.startDate, 0 - 1))
       ELSE addDays(l.startDate,
                    (daysCoveredByDownPayment * SCALE
                       + jsDivide(SumOver(rows, ids, "amount"), dailyRate))
                      \div SCALE - 1)

\* the day on which the loop has counted daysCovered days that are not skipped
coverageEnd_backfill(coverageStartDate, daysCovered, skipped) ==
    IF daysCovered = 0 THEN coverageStartDate
    ELSE CHOOSE e \in coverageStartDate..(coverageStartDate + daysCovered
                                            + Len(skipped)) :
            /\ ~isDateSkipped(e, skipped)
            /\ Cardinality({d \in coverageStartDate..e :
                               ~isDateSkipped(d, skipped)}) = daysCovered

\* daysCovered in whole days
coverageFrom_backfill(daysCovered, coverageStartDate, paymentDate, skipped) ==
    coverageResult(daysCovered * SCALE, coverageStartDate,
                   coverageEnd_backfill(coverageStartDate, daysCovered, skipped),
                   coverageStartDate < paymentDate)

calculatePaymentCoverageWithSkippedDates_backfill(paymentAmount, dailyRate, lastCoveredDate, paymentDate, skipped) ==
    coverageFrom_backfill(paymentAmount \div dailyRate,
                          coverageStart(addDays(lastCoveredDate, 1), skipped),
                          paymentDate, skipped)

calculateCoverage_backfill(l, rows, amount, td, skipped) ==
    coverageData(getLastCoveredDate_backfill(l, rows, DOMAIN rows),
                 calculatePaymentCoverageWithSkippedDates_backfill(
                     amount, l.installmentPaymentAmmount,
                     getLastCoveredDate_backfill(l, rows, DOMAIN rows), td, skipped),
                 td, skipped)

CalculateCoverage_backfill(amount) ==
    /\ preview' = calculateCoverage_backfill(loan, installment, amount, today,
                                             skippedDates)
    /\ last' = [op |-> "calculateCoverage (backfill)", outcome |-> "ok"]
    /\ UNCHANGED <<version, loan, installment, nextId, skippedDates, today,
                   listing, procs, before, cal, resolver, news, resolved>>

CalculateCoverage_backfillAny ==
    \E amount \in 1..MaxAmount : CalculateCoverage_backfill(amount)

NextPreview ==
    \/ CalculateCoverageAny
    \/ CreatePlainAny

SpecPreview == InitPreview /\ [][NextPreview]_vars

\* previews of every copy of the service on a loan without payments
NextBackfill ==
    \/ CalculateCoverageAny
    \/ CalculateCoverage_backfillAny
    \/ AdvanceDay

SpecBackfill == InitPreview /\ [][NextBackfill]_vars

----------------------------------------------------------------------------
(* Payment create with the classification given in the request *)

\* requests of create that may carry isLate, latePaymentDate and isAdvance;
\* the modelled requests carry no paymentDate and no advancePaymentDate
ClassifiedDtos ==
    [amount : 1..MaxAmount, gps : {0},
     isLate : {"undefined", "true", "false"},
     latePaymentDate : {Undefined, 0},
     isAdvance : {"undefined", "true", "false"}]

\* dto.isLate !== undefined ? dto.isLate : coverage.isLate, and likewise
\* isAdvance; dto.latePaymentDate ? dto.latePaymentDate : coverage.latePaymentDate
classifiedData(row, dto) ==
    [row EXCEPT
        !.isLate = IF dto.isLate = "undefined" THEN @ ELSE dto.isLate = "true",
        !.latePaymentDate =
            IF dto.latePaymentDate = Undefined THEN @ ELSE dto.latePaymentDate,
        !.isAdvance =
            IF dto.isAdvance = "undefined" THEN @ ELSE dto.isAdvance = "true"]

CreateClassified(dto) ==
    /\ nextId <= MaxPayments
    /\ CreateWrite(dto, createError(loan, dto),
                   rowsAfterCreate(
                       installment,
                       classifiedData(
                           newInstallment(version, loan, dto, installment,
                                          skippedDates, today, nextId),
                           dto)),
                   skippedDates)
    /\ listing' = <<>>
    /\ UNCHANGED <<version, skippedDates, today, procs, cal, preview, resolver, news, resolved>>

CreateClassifiedAny == \E dto \in ClassifiedDtos : CreateClassified(dto)

InitClassified ==
    /\ InitLedger(Versions, LoanSizes, {1}, {0}, {0},
                  {MakeDate(2024, 0, 30)}, SkipOffsets, InitElapsed)
    /\ cal = CalOff

NextClassified ==
    \/ CreateClassifiedAny
    \/ AdvanceDay

SpecClassified == InitClassified /\ [][NextClassified]_vars

----------------------------------------------------------------------------
(* The two skipped-date resolvers queried for the same loan *)

\* the day a news record starts; 2024-01-01 and 2024-03-01
NewsStartDates == {MakeDate(2024, 0, 1), MakeDate(2024, 2, 1)}

\* active records that apply to the loan, loan-specific or store-wide
TypedNewsRecords ==
    [skippedDates : ExplicitLists, isRecurring : {FALSE}, recurringDay : {0},
     recurringMonths : {{}}, type : {"LOAN_SPECIFIC", "STORE_WIDE"},
     startDate : {MakeDate(2024, 0, 1)}]
      \cup [skippedDates : {<<>>}, isRecurring : {TRUE}, recurringDay : {15},
            recurringMonths : {{}, {2}}, type : {"LOAN_SPECIFIC", "STORE_WIDE"},
            startDate : NewsStartDates]

\* getDatesFromNews(news, loanStartDate): the recurring dates start from
\* loanStartDate || news.startDate
getDatesFromNews(n, effectiveStartDate, td) ==
    {n.skippedDates[i] : i \in DOMAIN n.skippedDates}
        \cup recurringDates(n, effectiveStartDate, td)

\* getSkippedDatesBatch([loanId])[loanId]: loan-specific records are expanded
\* with getDatesFromNews(news, undefined), store-wide ones with
\* getDatesFromNews(news, loan.startDate)
getSkippedDatesBatch(allNews, loanStart, td) ==
    AscSeq(UNION {getDatesFromNews(
                      allNews[i],
                      IF allNews[i].type = "LOAN_SPECIFIC"
                      THEN allNews[i].startDate ELSE loanStart,
                      td) : i \in DOMAIN allNews})

CreateTypedNews(n) ==
    /\ Len(news) < MaxNews
    /\ news' = Append(news, n)
    /\ UNCHANGED <<version, loan, installment, nextId, skippedDates, today, last,
                   listing, procs, before, cal, preview, resolver, resolved>>

\* a client asks both resolvers for the loan
QuerySkippedDates ==
    /\ resolved' = [forLoan |-> getSkippedDatesForLoan(news, loan.startDate, today),
                    batch |-> getSkippedDatesBatch(news, loan.startDate, today)]
    /\ UNCHANGED <<version, loan, installment, nextId, skippedDates, today, last,
                   listing, procs, before, cal, preview, resolver, news>>

CreateTypedNewsAny == \E n \in TypedNewsRecords : CreateTypedNews(n)

NextBatch ==
    \/ CreateTypedNewsAny
    \/ QuerySkippedDates

SpecBatch == InitNews /\ [][NextBatch]_vars

----------------------------------------------------------------------------
(* Properties *)

Aggregates(l) ==
    <<l.paidInstallments, l.remainingInstallments, l.totalPaid, l.debtRemaining>>

CreateOk == CreateAny /\ last'.outcome = "ok"

RemoveOk == RemoveAny /\ last'.outcome = "ok"

RECURSIVE Replay(_, _, _)
\* the loan row after the payments in ids have been applied one after the
\* other, oldest first
Replay(l, rows, ids) ==
    IF ids = {} THEN l
    ELSE LET i == CHOOSE x \in ids : \A y \in ids : x <= y
         IN Replay(loanAfterCreate(l, [amount |-> rows[i].amount, gps |-> rows[i].gps],
                                   NULL),
                   rows, ids \ {i})

\* the loan as it was before any payment
InitialLoan ==
    FreshLoan(version, loan.installments, loan.installmentPaymentAmmount,
              loan.gpsInstallmentPayment, loan.downPayment, loan.startDate,
              skippedDates)

\* C1: after any sequence of successful creates and deletes,
\* paidInstallments + remainingInstallments equals the loan's total installments.
C1_Conservation ==
    loan.paidInstallments + loan.remainingInstallments = loan.installments * SCALE

\* C2: when two creates on the loan have both succeeded, in whatever order their
\* steps were interleaved, the loan aggregates are those of applying the two
\* payments one after the other.
C2_Serialized ==
    (AllIdle /\ nextId = 3)
        => Aggregates(loan)
             = Aggregates(Replay(InitialLoan, installment, DOMAIN installment))

\* C3: whenever no request is in progress, also after a persistence failure in
\* the middle of a create or a delete, the payment rows are exactly the
\* payments reflected in the loan aggregates: totalPaid is the sum of the
\* amounts of the stored rows.
C3_NoPartialCommit ==
    AllIdle => loan.totalPaid = SumOver(installment, DOMAIN installment, "amount")

\* C4: getLogicalDaysDifference(d, addLogicalDays(d, n)) = n for every date d
\* and every n >= 0.
C4_Inverse ==
    cal.pc = "done" => cal.diff = cal.n

\* C5: every successful create leaves loan.lastCoveredDate greater than or equal
\* to its previous value, every successful delete less than or equal to it.
C5_Monotone ==
    [][/\ CreateOk => loan'.lastCoveredDate >= loan.lastCoveredDate
       /\ RemoveOk => loan'.lastCoveredDate <= loan.lastCoveredDate]_vars

\* C6: deleting the payment that was just created restores paidInstallments,
\* remainingInstallments, totalPaid and debtRemaining to their values before
\* the create.
C6_DeleteReverses ==
    [][\A id \in 1..MaxPayments :
          (before.id = id /\ Remove(id)) => Aggregates(loan') = Aggregates(before.loan)]_vars

\* C7: a create or a delete leaves every stored field of every other payment
\* row as it was.
C7_SnapshotsFrozen ==
    [][(CreateAny \/ RemoveAny)
          => \A i \in (DOMAIN installment) \cap (DOMAIN installment') :
                installment'[i] = installment[i]]_vars

C7_Witness ==
    /\ version = "p3"
    /\ last = [op |-> "create", outcome |-> "ok"]
    /\ DOMAIN installment = {1, 2}
    /\ installment[1].exactInstallmentsOwed # installment[2].exactInstallmentsOwed
    /\ installment[1].remainingAmountOwedAfter # installment[2].remainingAmountOwedAfter

\* C8: a listed payment carries live recomputed values only if it is the most
\* recently created payment of the loan; every other listed payment carries
\* exactly its stored values.
C8_OnlyLatestIsLive ==
    [][FindAllAny =>
          \A k \in DOMAIN listing' :
             LET item == listing'[k]
                 latest == \A i \in DOMAIN installment : i <= item.row.id
             IN /\ item.isLatestInstallment => latest
                /\ ~latest => item.row = installment[item.row.id]]_vars

C10_TerminalRejects ==
    [][(loan.status \in {"COMPLETED", "DEFAULTED"} /\ CreateAny)
          => /\ last' = [op |-> "create", outcome |-> "BadRequest: loan status"]
             /\ loan' = loan
             /\ installment' = installment]_vars

C10_Witness ==
    /\ last = [op |-> "create", outcome |-> "BadRequest: loan status"]
    /\ loan.status = "DEFAULTED"
    /\ installment # <<>>

\* C11: a create whose base amount is greater than the loan's debtRemaining
\* fails with a validation error, creates no payment row and changes no field
\* of the loan row.
C11_OverpayRejected ==
    [][\A dto \in Dtos :
          (dto.amount > loan.debtRemaining /\ Create(dto))
             => /\ last'.op = "create"
                /\ last'.outcome \in {"BadRequest: exceeds remaining debt",
                                      "BadRequest: loan status"}
                /\ loan' = loan
                /\ installment' = installment
                /\ nextId' = nextId]_vars

C11_Witness ==
    /\ last = [op |-> "create", outcome |-> "BadRequest: exceeds remaining debt"]
    /\ loan.status = "ACTIVE"
    /\ loan.debtRemaining > 0
    /\ loan.debtRemaining < MaxAmount
    /\ installment # <<>>

\* C12: a create or a delete never writes the status DEFAULTED and never
\* changes the status of a DEFAULTED loan; the only status changes are ACTIVE
\* to COMPLETED by a create and COMPLETED to ACTIVE by a delete.
C12_DefaultedUntouched ==
    [][/\ CreateAny => \/ loan'.status = loan.status
                       \/ loan.status = "ACTIVE" /\ loan'.status = "COMPLETED"
       /\ RemoveAny => \/ loan'.status = loan.status
                       \/ loan.status = "COMPLETED" /\ loan'.status = "ACTIVE"]_vars

\* C13: after any sequence of successful creates and deletes,
\* loan.debtRemaining >= 0 and loan.remainingInstallments >= 0.
C13_NonNegative ==
    loan.debtRemaining >= 0 /\ loan.remainingInstallments >= 0

C15_SortedUnique ==
    /\ \A i, j \in DOMAIN skippedDates : i < j => skippedDates[i] < skippedDates[j]
    /\ countSkippedDatesInRange(loan.startDate, today + 31, skippedDates)
         = Cardinality({d \in loan.startDate..(today + 31) :
                           isDateSkipped(d, skippedDates)})

\* C16: whenever no create or delete is in progress, loan.lastCoveredDate is
\* the date getLastCoveredDate computes from the payments now stored.
C16_CacheCoherent ==
    AllIdle => loan.lastCoveredDate
                 = getLastCoveredDate(version, loan, installment,
                                      DOMAIN installment, skippedDates)

\* C17: deleting the only payment of a loan without down payment, right after
\* it was created, sets loan.lastCoveredDate to the loan's startDate and, if
\* that payment had made the loan COMPLETED, sets its status to ACTIVE.
C17_DeleteOnlyPaymentResets ==
    [][\A id \in 1..MaxPayments :
          (/\ DOMAIN installment = {id}
           /\ before.id = id
           /\ loan.downPayment = 0
           /\ Remove(id))
             => /\ loan'.lastCoveredDate = loan.startDate
                /\ loan.status = "COMPLETED" => loan'.status = "ACTIVE"]_vars

\* C18: an update changes at most the paymentDate and the latePaymentDate of
\* the modelled columns of the payment row: its amount, gps, isLate, isAdvance,
\* advancePaymentDate and snapshot columns stay as they were, no other row
\* changes and the loan row is not written.
C18_UpdateFrame ==
    [][UpdateAny
          => /\ loan' = loan
             /\ DOMAIN installment' = DOMAIN installment
             /\ \A i \in DOMAIN installment :
                   installment'[i]
                     = [installment[i] EXCEPT
                          !.paymentDate = installment'[i].paymentDate,
                          !.latePaymentDate = installment'[i].latePaymentDate]]_vars

\* C19: on a loan whose total daily rate is 0 every coverage preview and every
\* create ends with an error, and no preview data, payment row or loan
\* aggregate is produced from a division by the rate.
C19_ZeroRateRejected ==
    totalDailyRate(loan) = 0
        => /\ last.outcome # "ok"
           /\ preview = NoPreview
           /\ installment = <<>>

\* C20: getLogicalDaysDifference(2024-01-31, 2024-03-01) equals 30.
C20_ScenarioE ==
    (/\ cal.pc = "done"
     /\ cal.d = MakeDate(2024, 0, 31)
     /\ cal.r = MakeDate(2024, 2, 1))
        => cal.diff = 30

\* the difference has been computed from 2024-01-31 to 2024-03-01
C20_Witness ==
    /\ cal.pc = "done"
    /\ cal.d = MakeDate(2024, 0, 31)
    /\ cal.r = MakeDate(2024, 2, 1)
    /\ cal.diff = getLogicalDaysDifference(MakeDate(2024, 0, 31), MakeDate(2024, 2, 1))

\* the date C21 states: the start date advanced by the whole days covered,
\* then by the skipped dates up to there, with the version's addLogicalDays
lastCoveredDateStated(v, startDate, total, skipped) ==
    IF total = 0 THEN startDate
    ELSE lastCoveredAfterSkipped(v, startDate,
                                 addLogicalDays(v, startDate, total \div SCALE),
                                 skipped)

\* C21: getLastCoveredDate returns startDate when totalDaysCovered is 0, and
\* otherwise addLogicalDays(provisional, k), where provisional is startDate
\* advanced by floor(totalDaysCovered) logical days and k is the number of
\* skipped dates in [startDate, provisional]; for every start date.
C21_LastCoveredDate ==
    getLastCoveredDate(version, loan, installment, DOMAIN installment, skippedDates)
        = lastCoveredDateStated(
              version, loan.startDate,
              totalWorkingDaysCovered(loan, installment, DOMAIN installment),
              skippedDates)

\* C22: for every amount > 0 the coverage calculator returns coverageStart =
\* the first non-skipped day strictly after lastCoveredDate, and coverageEnd =
\* addLogicalDays(coverageStart, floor(daysCovered) - 1) extended by the number
\* of skipped dates in that range when floor(daysCovered) >= 1, or
\* coverageStart when 0 < daysCovered < 1; lastCoveredDate 2024-01-01 with 3
\* days and no skipped dates gives 2024-01-02 to 2024-01-04.
C22_CoverageRange ==
    [][CalculateCoverageAny
          => /\ preview'.coverageStartDate > preview'.lastCoveredDate
             /\ ~isDateSkipped(preview'.coverageStartDate, skippedDates)
             /\ \A d \in (preview'.lastCoveredDate + 1)..(preview'.coverageStartDate - 1) :
                   isDateSkipped(d, skippedDates)
             /\ preview'.daysCovered > 0
             /\ preview'.daysCovered < SCALE
                   => preview'.coverageEndDate = preview'.coverageStartDate
             /\ preview'.daysCovered >= SCALE
                   => preview'.coverageEndDate
                        = addLogicalDays(
                              version,
                              addLogicalDays(version, preview'.coverageStartDate,
                                             preview'.daysCovered \div SCALE - 1),
                              countSkippedDatesInRange(
                                  preview'.coverageStartDate,
                                  addLogicalDays(version, preview'.coverageStartDate,
                                                 preview'.daysCovered \div SCALE - 1),
                                  skippedDates))
             /\ (/\ preview'.lastCoveredDate = MakeDate(2024, 0, 1)
                 /\ skippedDates = <<>>
                 /\ preview'.daysCovered = 3 * SCALE)
                   => /\ preview'.coverageStartDate = MakeDate(2024, 0, 2)
                      /\ preview'.coverageEndDate = MakeDate(2024, 0, 4)]_vars

\* a preview whose coverage skipped forward at its start and was extended at
\* its end
C22_Witness ==
    /\ preview # NoPreview
    /\ last.op = "calculateCoverage"
    /\ preview.coverageStartDate > preview.lastCoveredDate + 1
    /\ preview.daysCovered >= 2 * SCALE
    /\ countSkippedDatesInRange(preview.coverageStartDate, preview.coverageEndDate,
                                skippedDates) > 0

\* C23: the coverage calculator classifies a payment as late exactly when
\* coverageStart <= the as-of date, so a payment whose coverageStart equals the
\* as-of date is late.
C23_LateInclusive ==
    [][(CalculateCoverageAny \/ CalculateCoverage_backfillAny)
          => preview'.isLate = (preview'.coverageStartDate <= today)]_vars

\* C24: every payment row written by create has latePaymentDate = coverageStart
\* when its stored isLate is true and latePaymentDate = null when its stored
\* isLate is false, also when the request supplies isLate or latePaymentDate.
C24_LateDateMatchesFlag ==
    [][(CreateClassifiedAny /\ last'.outcome = "ok")
          => installment'[nextId].latePaymentDate
               = IF installment'[nextId].isLate
                 THEN coverageStart(
                          addDays(getLastCoveredDate(version, loan, installment,
                                                     DOMAIN installment,
                                                     skippedDates), 1),
                          skippedDates)
                 ELSE NULL]_vars

\* a create of the version that stores snapshots has written its row
SnapshotCreateOk == CreatePlainAny /\ last'.outcome = "ok" /\ version = "p3"

\* the days the schedule asks for through yesterday, in units of 1/SCALE day
daysOwedThroughYesterday ==
    SCALE * (getLogicalDaysDifference(loan.startDate, today - 1)
               - countSkippedDatesInRange(loan.startDate, today - 1, skippedDates))

\* the days covered by the down payment and by the stored payments, in units
\* of 1/SCALE day
daysCoveredBefore ==
    (loan.downPayment * SCALE) \div totalDailyRate(loan)
      + (SumOver(installment, DOMAIN installment, "total") * SCALE)
          \div totalDailyRate(loan)

C27_MoneyConserved ==
    /\ loan.debtRemaining + loan.totalPaid
         = InitialLoan.debtRemaining + InitialLoan.totalPaid
    /\ loan.totalPaid - InitialLoan.totalPaid
         = SumOver(installment, DOMAIN installment, "amount")

\* a payment with a gps part is stored after another payment was deleted
C27_Witness ==
    /\ last = [op |-> "remove", outcome |-> "ok"]
    /\ DOMAIN installment = {2}
    /\ installment[2].gps > 0
    /\ loan.totalPaid = installment[2].amount

C29_LateAdvanceExclusive ==
    \A i \in DOMAIN installment :
        ~(installment[i].isLate /\ installment[i].isAdvance)

\* C30: for every configuration of active loan-specific and store-wide news
\* records, getSkippedDatesBatch([loanId])[loanId] is the same sorted date list
\* as getSkippedDatesForLoan(loanId).dates.
C30_ResolversAgree ==
    resolved.batch = resolved.forLoan

====
